---------------------------- MODULE Spec2Model ----------------------------
(***************************************************************************)
(* State-machine model of telegram_backup.py: the operator's menu loop     *)
(* (main), the backfill pass (process_entity), the incremental pass        *)
(* (update_entity), the store acquisition (get_db_connection and           *)
(* get_db_connection_sync) and the digest renderer (generate_html).        *)
(*                                                                         *)
(* A store is one sqlite file per entity; a table is a set of rows.  The   *)
(* body of the message loop is one action: it ends with conn.commit(), and *)
(* an exception inside it leaves the transaction uncommitted, which the    *)
(* conn.close() of the finally clause discards.                            *)
(***************************************************************************)
EXTENDS Integers, Sequences, FiniteSets, TLC

VARIABLES
    pc,         \* position of the program (see the actions)
    op,         \* the menu choice being served: "e", "t", "u" or NULL
    cur,        \* index into flat_entities of the entity being processed
    ops,        \* menu operations started so far in this session
    limit,      \* process_entity's limit (None: all messages)
    download,   \* download_media
    db,         \* entity id -> the committed content of its store file
    files,      \* media files on disk
    open,       \* connections opened and not closed, by the function that opened them
    attempt,    \* loop variable of get_db_connection
    sleeps,     \* durations slept since the current acquisition began
    upstream,   \* entity id -> the history the service holds, newest first
    changes,    \* changes of the service's histories so far in this session
    pos,        \* messages of the stream consumed so far in the current pass
    lastMsgId,  \* update_entity's last_msg_id
    processed,  \* ids printed as "Message <id> processed" in the current pass
    event,      \* last exception handled or raised in the current pass
    faults,     \* faults met while processing the messages of the current pass
    waited,     \* seconds slept on a rate-limit signal in the current pass
    exc,        \* the exception that ended the program (NULL: none)
    renders,    \* digests written by the current menu operation
    gh_entity_id,       \* generate_html's entity_id argument
    grouped_messages,   \* generate_html's grouped_messages: (day, messages) pairs
    message_lookup,     \* generate_html's message_lookup: message id -> fetched row
    preview,            \* the last call of get_reply_preview: argument and result
    dialogs,    \* what client.iter_dialogs() delivers
    entities,   \* main's entities: bucket -> list of (id, name, entity)
    listing,    \* the rows written to the entity listing (header left out)
    selected,   \* the tuple flat_entities[selected_index] of the last selection
    last        \* session log: the last pass whose message loop has ended

vars == <<pc, op, cur, ops, limit, download, db, files, open, attempt, sleeps,
          upstream, changes, pos, lastMsgId, processed, event, faults, waited,
          exc, renders, gh_entity_id, grouped_messages, message_lookup, preview,
          dialogs, entities, listing, selected, last>>

\* Python's None in a text column or a string variable
NULL == "NULL"
\* Python's None where the value is a number, a path or a token string
None == <<>>
Some(x) == <<x>>

---------------------------------------------------------------------------
(* Bounds *)

\* the first entity's history holds at most the messages 1..MaxId
MaxId == 4
\* the second entity's history holds the messages 1..SmallMaxId
SmallMaxId == 1
\* changes of the first entity's history during one session
MaxChanges == 1
\* the first entity's history of photo posts holds at most the posts 1..MaxPosts
MaxPosts == 2
\* faults (failed lookup, failed download, other exception) in one pass
MaxFaults == 1
\* menu operations the operator starts in one session
MaxOps == 2
\* the count limits the operator may type are 1..MaxLimit (or none)
MaxLimit == 1
\* the wait a rate-limit signal asks for, in seconds
FloodSeconds == 30
\* a history of replies, anchors or buttons holds at most the messages 1..MaxRecords
MaxRecords == 2
\* a sender reference is made of at most MaxParts parts
MaxParts == 2
\* a stream not ordered by id holds at most MaxReorder messages with ids 1..MaxReorder
MaxReorder == 3
\* get_reply_preview looks up ids 1..MaxLookup+1 in a lookup of ids 1..MaxLookup
MaxLookup == 2
\* texts have 0 characters or max_length-MaxSlack .. max_length+MaxSlack characters
MaxSlack == 1
\* client.iter_dialogs() delivers at most MaxDialogs dialogs
MaxDialogs == 3
\* a store handed to generate_html alone holds at most the messages 1..MaxRows
MaxRows == 3
\* whose dates are instants of 1..MaxDate
MaxDate == 6

---------------------------------------------------------------------------
(* Program constants *)

\* get_db_connection(db_name, max_retries=3)
max_retries == 3
\* asyncio.sleep(5 * (attempt + 1))
backoff_base == 5

\* the columns update_entity adds when absent
MigrationColumns == {"is_service_message", "is_voice_message", "is_pinned", "user_id"}

---------------------------------------------------------------------------
(* The catalog: flat_entities, in the order of the buckets *)

flat_entities ==
    << [id |-> 1, type |-> "User"],
       [id |-> 2, type |-> "Channel"],
       [id |-> 3, type |-> "ChannelForbidden"] >>

EntityIds == { flat_entities[i].id : i \in 1..Len(flat_entities) }

\* lines 247-253: the keys of entities, in the order of insertion
Buckets == <<"Users", "Channels", "Supergroups", "Groups", "Unknown">>

\* lines 247-253: every bucket empty
NoEntities == [c \in { Buckets[k] : k \in 1..Len(Buckets) } |-> <<>>]

\* lines 257-271: the bucket of a dialog's entity
entity_type(d) ==
    CASE d.type = "User" -> "Users"
      [] d.type = "Channel" -> IF d.broadcast THEN "Channels" ELSE "Supergroups"
      [] d.type = "Chat" -> "Groups"
      [] d.type = "ChannelForbidden" -> "Unknown"
      [] OTHER -> "Unknown"

\* lines 257-271: first_name or title, "ID: <id>" in the Unknown bucket
EntityName(d) ==
    IF entity_type(d) = "Unknown" THEN <<"ID: ", d.id>> ELSE <<d.type, d.id>>

RECURSIVE Catalog(_, _)
\* lines 255-273: entities[entity_type].append((entity.id, name, entity))
Catalog(ds, ents) ==
    IF ds = <<>> THEN ents
    ELSE LET d == Head(ds)
         IN  Catalog(Tail(ds),
                [ents EXCEPT ![entity_type(d)] =
                    Append(@, [id |-> d.id, name |-> EntityName(d), entity |-> d])])

RECURSIVE Listing(_, _, _)
\* lines 282-293: for category, entity_list in entities.items(): one row
\* [index, category, name, id] per entry, index counting from 0
Listing(ents, k, index) ==
    IF k > Len(Buckets) THEN <<>>
    ELSE LET category == Buckets[k]
             entity_list == ents[category]
         IN  [j \in 1..Len(entity_list) |->
                 [index |-> index + j - 1, category |-> category,
                  name |-> entity_list[j].name, id |-> entity_list[j].id]]
             \o Listing(ents, k + 1, index + Len(entity_list))

\* faulty variant: the Unknown bucket first
FlatUnknownFirst(ents) ==
    ents["Unknown"] \o ents["Users"] \o ents["Channels"] \o ents["Supergroups"]
        \o ents["Groups"]

RECURSIVE FlatFrom(_, _)
FlatFrom(ents, k) ==
    IF k > Len(Buckets) THEN <<>> ELSE ents[Buckets[k]] \o FlatFrom(ents, k + 1)

\* lines 304 and 321: [entity for category in entities.values() for entity in category]
Flat(ents) == FlatFrom(ents, 1)

\* the dialogs of the account whose catalog is flat_entities
SessionDialogs ==
    << [id |-> 1, type |-> "User", broadcast |-> FALSE],
       [id |-> 2, type |-> "Channel", broadcast |-> TRUE],
       [id |-> 3, type |-> "ChannelForbidden", broadcast |-> FALSE] >>

\* lines 247-294 have run on the dialogs ds, and nothing is selected
Cataloged(ds) ==
    /\ dialogs = ds
    /\ entities = Catalog(ds, NoEntities)
    /\ listing = Listing(Catalog(ds, NoEntities), 1, 0)
    /\ selected = None

entity == flat_entities[cur]

---------------------------------------------------------------------------
(* Sender references.  A reference string is a sequence of tokens: the     *)
(* three keys the patterns look for, decimal digits, and other text.       *)

DigitTokens == {"0", "1", "2", "3", "4", "5", "6", "7", "8", "9"}

RECURSIVE DigitRun(_, _)
\* (\d+) matched at position i: the longest run of digits starting there
DigitRun(s, i) ==
    IF i <= Len(s) /\ s[i] \in DigitTokens
    THEN <<s[i]>> \o DigitRun(s, i + 1)
    ELSE <<>>

\* re.search(key + r"(\d+)", s): the group of the leftmost match, or None
re_search(key, s) ==
    LET hits == { i \in 1..Len(s) : s[i] = key /\ DigitRun(s, i + 1) # <<>> }
    IN  IF hits = {} THEN None
        ELSE DigitRun(s, (CHOOSE i \in hits : \A j \in hits : i <= j) + 1)

isdigit(s) == Len(s) > 0 /\ \A i \in 1..Len(s) : s[i] \in DigitTokens

\* faulty variant: the channel-id pattern is probed before the user-id pattern
extract_channel_first(from_id_str) ==
    IF from_id_str = <<>> THEN None
    ELSE IF re_search("channel_id=", from_id_str) # None
         THEN re_search("channel_id=", from_id_str)
    ELSE IF re_search("user_id=", from_id_str) # None
         THEN re_search("user_id=", from_id_str)
    ELSE IF re_search("chat_id=", from_id_str) # None
         THEN re_search("chat_id=", from_id_str)
    ELSE IF isdigit(from_id_str) THEN from_id_str
    ELSE None

\* the empty sequence is both the empty string and None: "if not from_id_str"
extract_user_id(from_id_str) ==
    IF from_id_str = <<>> THEN None
    ELSE IF re_search("user_id=", from_id_str) # None
         THEN re_search("user_id=", from_id_str)
    ELSE IF re_search("channel_id=", from_id_str) # None
         THEN re_search("channel_id=", from_id_str)
    ELSE IF re_search("chat_id=", from_id_str) # None
         THEN re_search("chat_id=", from_id_str)
    ELSE IF isdigit(from_id_str) THEN from_id_str
    ELSE None

---------------------------------------------------------------------------
(* The external stream.  The histories of a session hold messages of one    *)
(* of two shapes: a user's text message (1), or a channel post with a photo *)
(* and no sender (2).  Six more shapes occur in the stores and histories    *)
(* of RecordHistories: a reply quoting a snippet (3), the same reply with a *)
(* newer snippet (4), a text with two anchors (5), a text with one anchor   *)
(* under a keyboard of one button (6), a text with a reaction under a       *)
(* keyboard of one button (7), and the same text after the button was       *)
(* relabelled and the reaction counted again (8).                           *)

Shapes == {1, 2}

RecordShapes == {1, 2, 3, 4, 5, 6, 7, 8}

\* message.reply_to_msg_id, message.reply_to.quote_text, message.buttons (rows
\* of buttons), the anchors BeautifulSoup finds in the text and
\* message.reactions.results
NoExtras ==
    [reply_to |-> None, quote |-> NULL, buttons |-> <<>>, anchors |-> <<>>,
     reactions |-> <<>>]

Extras(shape) ==
    CASE shape = 3 -> [NoExtras EXCEPT !.reply_to = Some(9), !.quote = "q1"]
      [] shape = 4 -> [NoExtras EXCEPT !.reply_to = Some(9), !.quote = "q2"]
      [] shape = 5 -> [NoExtras EXCEPT !.anchors = << [text |-> "x", href |-> "u1"],
                                                     [text |-> "y", href |-> "u2"] >>]
      [] shape = 6 -> [NoExtras EXCEPT
                         !.buttons = << << [text |-> "B", data |-> "d", url |-> NULL] >> >>,
                         !.anchors = << [text |-> "x", href |-> "u1"] >>]
      [] shape = 7 -> [NoExtras EXCEPT
                         !.buttons = << << [text |-> "B", data |-> "d", url |-> NULL] >> >>,
                         !.reactions = << [emoji |-> "up", count |-> 1] >>]
      [] shape = 8 -> [NoExtras EXCEPT
                         !.buttons = << << [text |-> "B2", data |-> "d2", url |-> "u3"] >> >>,
                         !.reactions = << [emoji |-> "up", count |-> 2] >>]
      [] OTHER -> NoExtras

\* str(message.from_id) of a message of the shape
FromId(shape) ==
    CASE shape = 2 -> <<"None">>
      [] shape \in {3, 4} -> <<"PeerChannel(", "channel_id=", "4", "2", ")">>
      [] shape = 5 -> <<"PeerChat(", "chat_id=", "5", ")">>
      [] shape = 6 -> <<"1", "2">>
      [] OTHER -> <<"PeerUser(", "user_id=", "7", ")">>

\* the date of message i is the instant i (ids grow with time)
RawMessage(i, shape) ==
    IF shape = 2
    THEN [id |-> i, date |-> i, text |-> "b", media |-> "MessageMediaPhoto",
          has_sender |-> FALSE, from_id |-> FromId(shape), extras |-> Extras(shape)]
    ELSE [id |-> i, date |-> i, text |-> IF shape = 1 THEN "a" ELSE "c", media |-> NULL,
          has_sender |-> TRUE, from_id |-> FromId(shape), extras |-> Extras(shape)]

\* the history top, top-1, ..., 1 of messages of one shape, newest first
History(top, shape) == [k \in 1..top |-> RawMessage(top + 1 - k, shape)]

\* the histories the first entity may have
Histories ==
    { History(top, 1) : top \in 0..MaxId } \cup { History(top, 2) : top \in 1..MaxPosts }

\* the service's history changes: messages arrive, the newest message is
\* deleted, or the messages are edited
HistoryChanges(h) ==
    LET shape == IF h # <<>> /\ h[1].text = "b" THEN 2 ELSE 1
    IN  { g \in Histories :
            \/ Len(g) > Len(h) /\ g = History(Len(g), shape)
            \/ Len(g) = Len(h) - 1 /\ g = History(Len(g), shape)
            \/ Len(g) = Len(h) /\ g # h }

Ids(rows) == { r.id : r \in rows }

SeqIds(s) == { s[k].id : k \in 1..Len(s) }

---------------------------------------------------------------------------
(* The store: one sqlite file per entity *)

\* no file on disk
NoStore ==
    [exists |-> FALSE, has_messages |-> FALSE, columns |-> {}, messages |-> {},
     replies |-> {}, buttons |-> {}, reactions |-> {}]

\* a store written by an earlier version of the program, whose messages
\* table lacks the columns in MigrationColumns \ have
LegacyStore(e, have) ==
    [exists |-> TRUE, has_messages |-> TRUE, columns |-> have,
     messages |-> { [id |-> 1, entity_id |-> e, date |-> 1, text |-> "a",
                     media_type |-> NULL, media_file |-> None, media_hash |-> None,
                     from_id |-> <<"PeerUser(", "user_id=", "7", ")">>,
                     sender_name |-> "Alice", reply_to_msg_id |-> None,
                     user_id |-> None] },
     replies |-> {}, buttons |-> {}, reactions |-> {}]

\* sqlite3.connect creates the file when it is missing
Connected(store) == [store EXCEPT !.exists = TRUE]

\* faulty variant: DROP TABLE followed by CREATE TABLE
CreateTablesAnew(store) ==
    [store EXCEPT !.has_messages = TRUE, !.columns = MigrationColumns, !.messages = {}]

\* CREATE TABLE IF NOT EXISTS messages (...): a new table has every column,
\* an existing one is left as it is
CreateTables(store) ==
    IF store.has_messages THEN store
    ELSE [store EXCEPT !.has_messages = TRUE, !.columns = MigrationColumns]

SameKey(r, q) == r.id = q.id /\ r.entity_id = q.entity_id

\* faulty variant: a plain INSERT into a table without primary key
InsertAlways(rows, row) == rows \cup {row}

\* faulty variant: the INSERT left out
InsertNever(rows, row) == rows

\* faulty variant: INSERT OR REPLACE
InsertOrReplace(rows, row) == { r \in rows : ~SameKey(r, row) } \cup {row}

\* INSERT OR IGNORE INTO messages: PRIMARY KEY (id, entity_id)
InsertOrIgnore(rows, row) ==
    IF \E r \in rows : SameKey(r, row) THEN rows ELSE rows \cup {row}

\* the file download_media writes for a message, and its md5
MediaPath(e, id) == <<e, id>>
get_file_hash(path, disk) == IF path \in disk THEN Some(<<"md5", path>>) ELSE None

\* faulty variant: the row is looked up by (id, entity_id) alone
media_recorded(store, e, message_id, media_type, disk) ==
    \E r \in store.messages :
        /\ r.id = message_id /\ r.entity_id = e
        /\ r.media_file # None
        /\ r.media_file[1] \in disk

\* lines 346-350: fetchone() of SELECT media_file ... WHERE id = ? AND
\* entity_id = ? AND media_type = ?, not None, and os.path.exists
media_exists(store, e, message_id, media_type, disk) ==
    \E r \in store.messages :
        /\ r.id = message_id /\ r.entity_id = e /\ r.media_type = media_type
        /\ r.media_file # None
        /\ r.media_file[1] \in disk

\* faulty variant: the cursor of a table without rows is 1
MaxStoredIdOrOne(store, e) ==
    LET ids == { r.id : r \in { q \in store.messages : q.entity_id = e } }
    IN  IF ids = {} THEN 1 ELSE CHOOSE m \in ids : \A i \in ids : i <= m

\* SELECT MAX(id) FROM messages WHERE entity_id = ?, 0 when there is no row
MaxStoredId(store, e) ==
    LET ids == { r.id : r \in { q \in store.messages : q.entity_id = e } }
    IN  IF ids = {} THEN 0 ELSE CHOOSE m \in ids : \A i \in ids : i <= m

---------------------------------------------------------------------------
(* The message normalizer: the loop body up to the INSERT *)

\* what goes wrong while one message is processed
Faults == {"none", "LookupError", "DownloadError", "MessageError"}

\* faulty variant: no try/except inside the loop body
CaughtNowhere(fault) == FALSE

\* the failures the loop body wraps in a try/except of its own: a failed
\* name lookup and a failed download; anything else leaves the loop body
CaughtInBody(fault) == fault \in {"LookupError", "DownloadError"}

\* faulty variant: the path of the download is recorded although it failed
MediaFieldsOfAttempt(m, e, store, disk, dl, fault, with_reuse) ==
    IF m.media = NULL \/ ~dl
    THEN [file |-> None, hash |-> None, fetched |-> FALSE]
    ELSE [file |-> Some(MediaPath(e, m.id)), hash |-> None, fetched |-> fault = "none"]

\* lines 584-599 (with_reuse) and 878-887 (without): the media fields of the row
MediaFields(m, e, store, disk, dl, fault, with_reuse) ==
    IF m.media = NULL \/ ~dl
    THEN [file |-> None, hash |-> None, fetched |-> FALSE]
    ELSE IF ~media_exists(store, e, m.id, m.media, disk)
    THEN IF fault = "DownloadError"
         THEN [file |-> None, hash |-> None, fetched |-> FALSE]
         ELSE [file |-> Some(MediaPath(e, m.id)),
               hash |-> get_file_hash(MediaPath(e, m.id), disk \cup {MediaPath(e, m.id)}),
               fetched |-> TRUE]
    ELSE IF with_reuse
    THEN LET r == CHOOSE q \in store.messages : q.id = m.id /\ q.entity_id = e
         IN  [file |-> r.media_file, hash |-> r.media_hash, fetched |-> FALSE]
    ELSE [file |-> None, hash |-> None, fetched |-> FALSE]

\* message.sender's name, else the channel's title looked up over the network
SenderName(m, fault) ==
    IF m.has_sender THEN "Alice"
    ELSE IF fault = "LookupError" THEN NULL
    ELSE "Channel"

MessageRow(m, e, media, fault) ==
    [id |-> m.id, entity_id |-> e, date |-> m.date, text |-> m.text,
     media_type |-> m.media, media_file |-> media.file, media_hash |-> media.hash,
     from_id |-> m.from_id, sender_name |-> SenderName(m, fault),
     reply_to_msg_id |-> m.extras.reply_to,
     user_id |-> extract_user_id(m.from_id)]

\* the INSERT names every column of MigrationColumns: it raises on a table without them
InsertRaises(store) == store.columns # MigrationColumns

\* the exception that leaves the loop body: the fault itself, or the INSERT's
BodyError(fault) ==
    IF fault # "none" /\ ~CaughtInBody(fault) THEN fault ELSE "OperationalError"

\* faulty variant: nothing is committed inside the loop
StoreUncommitted(store, m, e, media, fault) == store

\* the store after the loop body has committed message m
CommitMessage(store, m, e, media, fault) ==
    [store EXCEPT !.messages = InsertOrIgnore(@, MessageRow(m, e, media, fault))]

\* the ReplyRecord of a replying message
ReplyRow(m, e) ==
    [message_id |-> m.id, entity_id |-> e, reply_to_msg_id |-> m.extras.reply_to[1],
     quote_text |-> m.extras.quote]

SameReply(r, q) == r.message_id = q.message_id /\ r.entity_id = q.entity_id

\* INSERT OR IGNORE (process_entity) or INSERT OR REPLACE (update_entity) INTO
\* replies: UNIQUE(message_id, entity_id)
InsertReply(rows, row, replace) ==
    IF \E r \in rows : SameReply(r, row)
    THEN IF replace THEN { r \in rows : ~SameReply(r, row) } \cup {row} ELSE rows
    ELSE rows \cup {row}

\* for i, row in enumerate(message.buttons): for j, button in enumerate(row)
KeyboardRow(m, e, i) ==
    [j \in 1..Len(m.extras.buttons[i]) |->
        [message_id |-> m.id, entity_id |-> e, row |-> i - 1, column |-> j - 1,
         text |-> m.extras.buttons[i][j].text, data |-> m.extras.buttons[i][j].data,
         url |-> m.extras.buttons[i][j].url]]

RECURSIVE Keyboard(_, _, _)
Keyboard(m, e, i) ==
    IF i > Len(m.extras.buttons) THEN <<>>
    ELSE KeyboardRow(m, e, i) \o Keyboard(m, e, i + 1)

\* for link in soup.find_all('a'): (id, entity_id, 0, 0, link.text, None, link['href'])
AnchorButtons(m, e) ==
    [k \in 1..Len(m.extras.anchors) |->
        [message_id |-> m.id, entity_id |-> e, row |-> 0, column |-> 0,
         text |-> m.extras.anchors[k].text, data |-> NULL,
         url |-> m.extras.anchors[k].href]]

SameButton(b, c) ==
    /\ b.message_id = c.message_id /\ b.entity_id = c.entity_id
    /\ b.row = c.row /\ b.column = c.column

RECURSIVE ReplaceButtons(_, _)
\* faulty variant: INSERT OR REPLACE INTO buttons
ReplaceButtons(rows, bs) ==
    IF bs = <<>> THEN rows
    ELSE ReplaceButtons({ b \in rows : ~SameButton(b, Head(bs)) } \cup {Head(bs)}, Tail(bs))

RECURSIVE InsertButtons(_, _)
\* INSERT OR IGNORE INTO buttons, one button after the other:
\* UNIQUE(message_id, entity_id, row, column)
InsertButtons(rows, bs) ==
    IF bs = <<>> THEN rows
    ELSE InsertButtons(IF \E b \in rows : SameButton(b, Head(bs))
                       THEN rows ELSE rows \cup {Head(bs)},
                       Tail(bs))

\* the ReactionRecords of a message, in the order of message.reactions.results
Reactions(m, e) ==
    [k \in 1..Len(m.extras.reactions) |->
        [message_id |-> m.id, entity_id |-> e, emoji |-> m.extras.reactions[k].emoji,
         count |-> m.extras.reactions[k].count]]

SameReaction(r, q) ==
    r.message_id = q.message_id /\ r.entity_id = q.entity_id /\ r.emoji = q.emoji

RECURSIVE InsertReactions(_, _)
\* INSERT OR IGNORE INTO reactions: UNIQUE(message_id, entity_id, emoji)
InsertReactions(rows, rs) ==
    IF rs = <<>> THEN rows
    ELSE InsertReactions(IF \E r \in rows : SameReaction(r, Head(rs))
                         THEN rows ELSE rows \cup {Head(rs)},
                         Tail(rs))

\* what the connection has written when the INSERT INTO messages is reached:
\* the reactions, not yet committed
Uncommitted(store, m, e) ==
    [store EXCEPT !.reactions = InsertReactions(@, Reactions(m, e))]

\* faulty variant: closing the connection commits what was written
CloseCommits(committed, written) == written

\* conn.close() without commit: the open transaction is rolled back
Close(committed, written) == committed

\* the store after the inserts that follow the message's: the reply, the
\* keyboard buttons, the anchors
CommitRecords(store, m, e, replace) ==
    [store EXCEPT
       !.replies = IF m.extras.reply_to # None
                   THEN InsertReply(@, ReplyRow(m, e), replace) ELSE @,
       !.buttons = InsertButtons(@, Keyboard(m, e, 1) \o AnchorButtons(m, e))]

\* the messages iter_messages(entity, limit=limit) delivers
Delivered(s, lim) ==
    IF lim = None THEN s
    ELSE SubSeq(s, 1, IF lim[1] < Len(s) THEN lim[1] ELSE Len(s))

---------------------------------------------------------------------------
(* Initial state: the program has started and built its catalog; the       *)
(* stores are those an earlier session left behind.                        *)

\* a file whose messages table was never created
FileOnly == [NoStore EXCEPT !.exists = TRUE]

InitStores(e) ==
    IF e = 1
    THEN {NoStore, FileOnly, LegacyStore(e, {})}
    ELSE {NoStore}

\* message_lookup before the query: no message
NoLookup == [i \in {} |-> NULL]

\* no call of get_reply_preview yet
NoPreview == [msg_id |-> None, text |-> NULL]

\* fn: the function whose loop ended, for entity e with this limit; ok: it
\* ended without exception; fresh: the entity's history has not changed since;
\* cursor: its last_msg_id; done: the messages it committed
NoPass ==
    [fn |-> "none", e |-> 0, limit |-> None, ok |-> FALSE, fresh |-> FALSE,
     cursor |-> 0, done |-> 0]

Init ==
    /\ pc = "menu"
    /\ op = NULL
    /\ cur = 1
    /\ ops = 0
    /\ limit = None
    /\ download = FALSE
    /\ db \in { f \in [EntityIds -> UNION { InitStores(e) : e \in EntityIds }] :
                  \A e \in EntityIds : f[e] \in InitStores(e) }
    /\ files = {}
    /\ open = {}
    /\ attempt = 0
    /\ sleeps = <<>>
    /\ upstream \in { u \in [EntityIds -> Histories \cup {History(SmallMaxId, 1)}] :
                        /\ u[1] \in Histories
                        /\ u[2] = History(SmallMaxId, 1)
                        /\ u[3] = <<>> }
    /\ changes = 0
    /\ pos = 0
    /\ lastMsgId = 0
    /\ processed = <<>>
    /\ event = NULL
    /\ faults = 0
    /\ waited = 0
    /\ exc = NULL
    /\ renders = 0
    /\ gh_entity_id = None
    /\ grouped_messages = <<>>
    /\ message_lookup = NoLookup /\ preview = NoPreview
    /\ Cataloged(SessionDialogs)
    /\ last = NoPass

menuVars == <<op, cur, ops, limit, download>>
connVars == <<attempt, sleeps>>
passVars == <<pos, lastMsgId, processed, faults, last>>
catalogVars == <<dialogs, entities, listing, selected>>
\* what a pass leaves alone: the service's histories and main's catalog
envVars == <<upstream, changes, catalogVars>>
digestVars == <<renders, gh_entity_id, grouped_messages, message_lookup, preview>>

\* what client.iter_messages(entity) delivers in the current pass
stream == upstream[entity.id]

---------------------------------------------------------------------------
(* main: the menu loop *)

Limits == {None} \cup { Some(n) : n \in 1..MaxLimit }

\* [E] Process specific entity
Menu_e ==
    /\ pc = "menu" /\ ops < MaxOps
    /\ \E idx \in 1..Len(flat_entities), lim \in Limits, dl \in BOOLEAN :
         /\ cur' = idx /\ limit' = lim /\ download' = dl
    /\ op' = "e" /\ ops' = ops + 1
    /\ pc' = "pe_begin"
    /\ UNCHANGED <<db, files, open, connVars, envVars, passVars, event, waited, exc, digestVars>>

\* [T] Process all entities
Menu_t ==
    /\ pc = "menu" /\ ops < MaxOps
    /\ \E lim \in Limits, dl \in BOOLEAN : limit' = lim /\ download' = dl
    /\ cur' = 1
    /\ op' = "t" /\ ops' = ops + 1
    /\ pc' = "pe_begin"
    /\ UNCHANGED <<db, files, open, connVars, envVars, passVars, event, waited, exc, digestVars>>

\* [U] Update existing backup
Menu_u ==
    /\ pc = "menu" /\ ops < MaxOps
    /\ \E idx \in 1..Len(flat_entities), dl \in BOOLEAN : cur' = idx /\ download' = dl
    /\ limit' = None
    /\ op' = "u" /\ ops' = ops + 1
    /\ pc' = "ue_begin"
    /\ UNCHANGED <<db, files, open, connVars, envVars, passVars, event, waited, exc, digestVars>>

\* [S] Exit, or "N" to "Do you want to perform another operation?"
Menu_s ==
    /\ pc = "menu"
    /\ pc' = "exited"
    /\ UNCHANGED <<menuVars, db, files, open, connVars, envVars, passVars, event,
                   waited, exc, digestVars>>

\* process_entity or update_entity has returned to main and its locals are
\* gone: the for loop of [T] goes on to the next entity, the other choices
\* go back to the menu
Return ==
    /\ pc = "ret"
    /\ IF op = "t" /\ cur < Len(flat_entities)
       THEN /\ cur' = cur + 1 /\ pc' = "pe_begin"
            /\ UNCHANGED <<op, limit, download>>
       ELSE /\ cur' = 1 /\ pc' = "menu"
            /\ op' = NULL /\ limit' = None /\ download' = FALSE
    /\ event' = NULL /\ waited' = 0 /\ renders' = 0
    /\ gh_entity_id' = None /\ grouped_messages' = <<>>
    /\ message_lookup' = NoLookup /\ preview' = NoPreview
    /\ attempt' = 0 /\ sleeps' = <<>>
    /\ pos' = 0 /\ lastMsgId' = 0 /\ processed' = <<>> /\ faults' = 0
    /\ UNCHANGED <<ops, db, files, open, envVars, last, exc>>

\* between two operations the first entity's history changes at the service
UpstreamChanges ==
    /\ pc = "menu" /\ 0 < ops /\ ops < MaxOps /\ changes < MaxChanges
    /\ \E h \in HistoryChanges(upstream[1]) :
         upstream' = [upstream EXCEPT ![1] = h]
    /\ changes' = changes + 1
    /\ last' = IF last.e = 1 THEN [last EXCEPT !.fresh = FALSE] ELSE last
    /\ UNCHANGED <<pc, menuVars, db, files, open, connVars, pos, lastMsgId, processed,
                   faults, event, waited, exc, digestVars, catalogVars>>

\* faulty variant: conn.close() left out
StillHeld(opened, owner) == opened

\* conn.close() by owner: its connection is no longer open
Released(opened, owner) == opened \ {owner}

\* an exception nothing catches leaves main: asyncio.run(main()) raises it
\* and the program ends, its local variables with it; opened is the set of
\* connections left unclosed, ev the last event of the pass
Raise(kind, opened, ev) ==
    /\ pc' = "crashed"
    /\ exc' = kind
    /\ open' = opened
    /\ event' = ev
    /\ limit' = None /\ download' = FALSE
    /\ pos' = 0 /\ lastMsgId' = 0 /\ processed' = <<>> /\ faults' = 0
    /\ waited' = 0 /\ renders' = 0
    /\ gh_entity_id' = None /\ grouped_messages' = <<>>
    /\ message_lookup' = NoLookup /\ preview' = NoPreview
    /\ UNCHANGED <<op, cur, ops, files, envVars, last>>

\* the same, raised outside get_db_connection with nothing written
Crash(kind, opened, ev) ==
    /\ Raise(kind, opened, ev)
    /\ attempt' = 0 /\ sleeps' = <<>>
    /\ UNCHANGED db

---------------------------------------------------------------------------
(* get_db_connection and get_db_connection_sync *)

\* what sqlite3.connect and the PRAGMAs may do
ConnectResults == {"ok", "locked", "error"}

\* faulty variant: the retry test off by one
RetryAllowedOnceMore(result, att) == result = "locked" /\ att < max_retries

\* "database is locked" in str(e).lower() and attempt < max_retries - 1
RetryAllowed(result, att) == result = "locked" /\ att < max_retries - 1

\* 5 * (attempt + 1)
Backoff(att) == backoff_base * (att + 1)

\* one pass of the for loop of get_db_connection, called by owner for
\* entity e; next is where the caller goes on with the connection
get_db_connection(owner, e, next) ==
    \E result \in ConnectResults :
        IF result = "ok"
        THEN /\ open' = open \cup {owner}
             /\ db' = [db EXCEPT ![e] = Connected(@)]
             /\ pc' = next
             /\ attempt' = 0 /\ sleeps' = <<>>
             /\ UNCHANGED <<menuVars, files, envVars, passVars, event,
                            waited, exc, digestVars>>
        ELSE IF RetryAllowed(result, attempt)
        THEN /\ sleeps' = Append(sleeps, Backoff(attempt))
             /\ attempt' = attempt + 1
             /\ UNCHANGED <<pc, menuVars, db, files, open, envVars, passVars, event,
                            waited, exc, digestVars>>
        ELSE /\ Raise(IF result = "locked" THEN "database is locked"
                      ELSE "OperationalError", open, event)
             /\ UNCHANGED <<connVars, db>>

\* the synchronous copy, used by generate_html
get_db_connection_sync(owner, e, next) ==
    \E result \in ConnectResults :
        IF result = "ok"
        THEN /\ open' = open \cup {owner}
             /\ db' = [db EXCEPT ![e] = Connected(@)]
             /\ pc' = next
             /\ attempt' = 0 /\ sleeps' = <<>>
             /\ UNCHANGED <<menuVars, files, envVars, passVars, event,
                            waited, exc, digestVars>>
        ELSE IF RetryAllowed(result, attempt)
        THEN /\ sleeps' = Append(sleeps, Backoff(attempt))
             /\ attempt' = attempt + 1
             /\ UNCHANGED <<pc, menuVars, db, files, open, envVars, passVars, event,
                            waited, exc, digestVars>>
        ELSE /\ Raise(IF result = "locked" THEN "database is locked"
                      ELSE "OperationalError", open, event)
             /\ UNCHANGED <<connVars, db>>

---------------------------------------------------------------------------
(* The message loop shared by process_entity and update_entity *)

\* what client.iter_messages may raise instead of delivering a message
StreamErrors == {"FloodWaitError", "ChannelPrivateError", "RPCError"}

\* the faults that can occur while m is processed: a name is looked up only
\* for a message without sender, a file is downloaded only when asked for
\* and not already on disk
FaultPossible(m, e, fault) ==
    \/ fault = "none"
    \/ /\ faults < MaxFaults
       /\ \/ fault = "MessageError"
          \/ fault = "LookupError" /\ ~m.has_sender
          \/ fault = "DownloadError" /\ m.media # NULL /\ download
               /\ ~media_exists(db[e], e, m.id, m.media, files)

\* faulty variant: process_entity without its except ChannelPrivateError
CaughtFloodOnly(kind) == kind = "FloodWaitError"

\* process_entity: except FloodWaitError, except ChannelPrivateError
Caught_pe(kind) == kind \in {"FloodWaitError", "ChannelPrivateError"}

\* update_entity: except Exception
Caught_ue(kind) == TRUE

\* process_entity sleeps e.seconds on a FloodWaitError; update_entity only prints
FloodWait_pe(kind) == IF kind = "FloodWaitError" THEN FloodSeconds ELSE 0

\* the loop is over, the connection is closed and generate_html is called
ToDigest(owner, ok) ==
    /\ pc' = "gh_connect"
    /\ open' = Released(open, owner)
    /\ last' = [fn |-> owner, e |-> entity.id, limit |-> limit, ok |-> ok,
                fresh |-> TRUE, cursor |-> lastMsgId, done |-> pos]
    /\ attempt' = 0 /\ sleeps' = <<>>
    /\ gh_entity_id' = Some(entity.id)
    /\ UNCHANGED <<menuVars, files, envVars, exc, renders, grouped_messages, message_lookup,
                   preview, pos, lastMsgId, processed, faults>>

\* an exception leaves the try block of owner: the finally clause closes the
\* connection, which has written the store written since the last commit;
\* a caught exception goes on to generate_html, any other leaves the function
LeaveTry(owner, kind, caught, wait, written) ==
    /\ db' = [db EXCEPT ![entity.id] = Close(@, written)]
    /\ IF caught
       THEN /\ ToDigest(owner, FALSE)
            /\ event' = kind
            /\ waited' = wait
       ELSE /\ Raise(kind, Released(open, owner), kind)
            /\ attempt' = 0 /\ sleeps' = <<>>

\* the loop has ended without exception: finally closes the connection
LoopEnds(owner) ==
    /\ ToDigest(owner, TRUE)
    /\ UNCHANGED <<db, event, waited>>

\* the loop body for message m: normalize, insert, commit, print; with_reuse
\* is TRUE in process_entity and FALSE in update_entity, which differ in the
\* reuse of a recorded media file and in the INSERT of the reply
LoopBody(m, e, fault, with_reuse) ==
    LET media == MediaFields(m, e, db[e], files, download, fault, with_reuse)
    IN  /\ db' = [db EXCEPT ![e] =
                    CommitRecords(CommitMessage(Uncommitted(@, m, e), m, e, media, fault),
                                  m, e, ~with_reuse)]
        /\ files' = IF media.fetched THEN files \cup {MediaPath(e, m.id)} ELSE files
        /\ pos' = pos + 1
        /\ processed' = Append(processed, m.id)
        /\ event' = IF fault = "none" THEN event ELSE fault
        /\ faults' = IF fault = "none" THEN faults ELSE faults + 1
        /\ UNCHANGED <<pc, menuVars, open, connVars, envVars, lastMsgId, waited,
                       exc, digestVars, last>>

---------------------------------------------------------------------------
(* process_entity *)

\* faulty variant: no entity is taken for inaccessible
InaccessibleNever(ent) == FALSE

\* isinstance(entity, ChannelForbidden)
Inaccessible(ent) == ent.type = "ChannelForbidden"

\* lines 418-426: an inaccessible entity is skipped
pe_Begin ==
    /\ pc = "pe_begin"
    /\ pos' = 0 /\ processed' = <<>> /\ waited' = 0 /\ renders' = 0 /\ faults' = 0
    /\ gh_entity_id' = None /\ grouped_messages' = <<>>
    /\ message_lookup' = NoLookup /\ preview' = NoPreview
    /\ IF Inaccessible(entity)
       THEN /\ event' = "not accessible"
            /\ pc' = "ret"
            /\ UNCHANGED connVars
       ELSE /\ event' = NULL
            /\ pc' = "pe_connect"
            /\ attempt' = 0 /\ sleeps' = <<>>
    /\ UNCHANGED <<menuVars, db, files, open, envVars, lastMsgId, last, exc>>

\* line 429
pe_Connect ==
    /\ pc = "pe_connect"
    /\ get_db_connection("pe", entity.id, "pe_create")

\* lines 430-486: the four CREATE TABLE IF NOT EXISTS, outside the try block
pe_CreateTables ==
    /\ pc = "pe_create"
    /\ \E fails \in BOOLEAN :
         IF fails
         THEN Crash("OperationalError", open, event)
         ELSE /\ db' = [db EXCEPT ![entity.id] = CreateTables(@)]
              /\ pc' = "pe_iter"
              /\ UNCHANGED <<menuVars, files, open, connVars, envVars, passVars,
                             event, waited, exc, digestVars>>

\* lines 489-683: one message of the stream
pe_Message ==
    /\ pc = "pe_iter"
    /\ pos < Len(Delivered(stream, limit))
    /\ LET m == stream[pos + 1]
           e == entity.id
       IN  \E fault \in Faults :
             /\ FaultPossible(m, e, fault)
             /\ IF (fault # "none" /\ ~CaughtInBody(fault)) \/ InsertRaises(db[e])
                THEN LeaveTry("pe", BodyError(fault), Caught_pe(BodyError(fault)), 0,
                              Uncommitted(db[e], m, e))
                ELSE LoopBody(m, e, fault, TRUE)

\* lines 686-692: iter_messages raises
pe_StreamRaises ==
    /\ pc = "pe_iter"
    /\ \E kind \in StreamErrors :
         LeaveTry("pe", kind, Caught_pe(kind), FloodWait_pe(kind), db[entity.id])

\* line 685: the stream is exhausted or the limit reached
pe_Done ==
    /\ pc = "pe_iter"
    /\ pos = Len(Delivered(stream, limit))
    /\ LoopEnds("pe")

---------------------------------------------------------------------------
(* update_entity *)

\* faulty variant: the columns are added and user_id is left empty
MigrateColumnsOnly(store) == [store EXCEPT !.columns = MigrationColumns]

\* lines 721-744: the columns are added; a new user_id column is filled
\* from from_id, for the rows where extract_user_id finds an id
Migrate(store) ==
    [store EXCEPT
       !.columns = MigrationColumns,
       !.messages =
          IF "user_id" \in store.columns THEN @
          ELSE { IF extract_user_id(r.from_id) # None
                 THEN [r EXCEPT !.user_id = extract_user_id(r.from_id)]
                 ELSE r : r \in @ }]

\* lines 696-705: without a store file the update is a backfill
ue_Begin ==
    /\ pc = "ue_begin"
    /\ pos' = 0 /\ processed' = <<>> /\ waited' = 0 /\ renders' = 0 /\ faults' = 0
    /\ gh_entity_id' = None /\ grouped_messages' = <<>>
    /\ message_lookup' = NoLookup /\ preview' = NoPreview
    /\ event' = NULL
    /\ IF ~db[entity.id].exists
       THEN pc' = "pe_begin" /\ UNCHANGED connVars
       ELSE pc' = "ue_connect" /\ attempt' = 0 /\ sleeps' = <<>>
    /\ UNCHANGED <<menuVars, db, files, open, envVars, lastMsgId, last, exc>>

\* line 708
ue_Connect ==
    /\ pc = "ue_connect"
    /\ get_db_connection("ue", entity.id, "ue_check")

\* lines 709-716: a file without messages table is closed and backfilled
ue_CheckTable ==
    /\ pc = "ue_check"
    /\ \E fails \in BOOLEAN :
         IF fails
         THEN Crash("OperationalError", open, event)
         ELSE /\ IF ~db[entity.id].has_messages
                 THEN open' = Released(open, "ue") /\ pc' = "pe_begin"
                 ELSE open' = open /\ pc' = "ue_migrate"
              /\ UNCHANGED <<menuVars, db, files, connVars, envVars, passVars,
                             event, waited, exc, digestVars>>

\* lines 718-777: schema migration and cursor resolution, outside the try block
ue_Migrate ==
    /\ pc = "ue_migrate"
    /\ \E fails \in BOOLEAN :
         IF fails
         THEN Crash("OperationalError", open, event)
         ELSE /\ db' = [db EXCEPT ![entity.id] = Migrate(@)]
              /\ lastMsgId' = MaxStoredId(Migrate(db[entity.id]), entity.id)
              /\ pc' = "ue_iter"
              /\ UNCHANGED <<menuVars, files, open, connVars, envVars, pos, processed,
                             faults, last, event, waited, exc, digestVars>>

\* faulty variant: the break test with < for <=
BelowCursor(m, cursor) == m.id < cursor

\* faulty variant: no break
NeverAtCursor(m, cursor) == FALSE

\* line 781: if message.id <= last_msg_id: break
AtCursor(m, cursor) == m.id <= cursor

\* lines 780-971: one message above the cursor
ue_Message ==
    /\ pc = "ue_iter"
    /\ pos < Len(stream)
    /\ ~AtCursor(stream[pos + 1], lastMsgId)
    /\ LET m == stream[pos + 1]
           e == entity.id
       IN  \E fault \in Faults :
             /\ FaultPossible(m, e, fault)
             /\ IF (fault # "none" /\ ~CaughtInBody(fault)) \/ InsertRaises(db[e])
                THEN LeaveTry("ue", BodyError(fault), Caught_ue(BodyError(fault)), 0,
                              Uncommitted(db[e], m, e))
                ELSE LoopBody(m, e, fault, FALSE)

\* lines 974-977: iter_messages raises
ue_StreamRaises ==
    /\ pc = "ue_iter"
    /\ \E kind \in StreamErrors : LeaveTry("ue", kind, Caught_ue(kind), 0, db[entity.id])

\* lines 781-782 and 973: the cursor is met or the stream is exhausted
ue_Done ==
    /\ pc = "ue_iter"
    /\ IF pos = Len(stream) THEN TRUE ELSE AtCursor(stream[pos + 1], lastMsgId)
    /\ LoopEnds("ue")

---------------------------------------------------------------------------
(* generate_html *)

\* the SELECT reads every column of MigrationColumns
QueryRaises(store) == store.columns # MigrationColumns

\* line 983
gh_Connect ==
    /\ pc = "gh_connect"
    /\ get_db_connection_sync("gh", entity.id, "gh_query")

\* WHERE m.entity_id = ?, unless entity_id is None
Selected(store, entity_id) ==
    IF entity_id = None THEN store.messages
    ELSE { r \in store.messages : r.entity_id = entity_id[1] }

RECURSIVE Orderings(_)
\* ORDER BY m.date DESC: the orders in which the query may return the rows
\* (rows of equal date come in any order)
Orderings(rows) ==
    IF rows = {} THEN { <<>> }
    ELSE UNION { { <<r>> \o s : s \in Orderings(rows \ {r}) } :
                 r \in { q \in rows : \A p \in rows : p.date <= q.date } }

\* lines 1059-1070 and 1088-1092: the day an instant falls on; a day has two instants
DayOf(date) == (date + 1) \div 2

\* what the digest shows of a message
Entry(r) == [id |-> r.id, date |-> r.date]

RECURSIVE GroupByDay(_, _)
\* lines 1049-1077: date_groups[day_str].append(message), a dict, whose keys
\* keep the order of their first insertion
GroupByDay(msgs, groups) ==
    IF msgs = <<>> THEN groups
    ELSE LET r == Head(msgs)
             at == { k \in 1..Len(groups) : groups[k].day = DayOf(r.date) }
         IN  GroupByDay(Tail(msgs),
                IF at = {}
                THEN Append(groups, [day |-> DayOf(r.date), msgs |-> <<Entry(r)>>])
                ELSE [groups EXCEPT ![CHOOSE k \in at : TRUE].msgs = Append(@, Entry(r))])

\* lines 1079-1093: grouped_messages.append((day_str, [message]))
GroupEach(msgs) ==
    [k \in 1..Len(msgs) |-> [day |-> DayOf(msgs[k].date), msgs |-> <<Entry(msgs[k])>>]]

\* lines 1048-1093: the grouping depends on whether an entity is given
Grouped(msgs, entity_id) ==
    IF entity_id # None THEN GroupByDay(msgs, <<>>) ELSE GroupEach(msgs)

\* the columns of a fetched row that get_reply_preview reads: msg[2], msg[3],
\* msg[8], msg[15]; a message without action is stored with is_service_message
\* False (line 497)
Fetched(r) ==
    [id |-> r.id, text |-> r.text, media_type |-> r.media_type,
     sender_name |-> r.sender_name, is_service_message |-> FALSE]

\* line 1009: {msg[0]: msg for msg in messages}, a later row replacing an
\* earlier one of the same id
Lookup(msgs) ==
    [i \in { msgs[k].id : k \in 1..Len(msgs) } |->
        LET at == { k \in 1..Len(msgs) : msgs[k].id = i }
        IN  Fetched(msgs[CHOOSE k \in at : \A j \in at : j <= k])]

\* lines 984-1115: query, grouping, conn.close(), render, write
gh_Render ==
    /\ pc = "gh_query"
    /\ \E fails \in BOOLEAN :
         IF fails \/ QueryRaises(db[entity.id])
         THEN Crash("OperationalError", open, event)
         ELSE /\ open' = Released(open, "gh")
              /\ renders' = renders + 1
              /\ \E msgs \in Orderings(Selected(db[entity.id], gh_entity_id)) :
                   /\ grouped_messages' = Grouped(msgs, gh_entity_id)
                   /\ message_lookup' = Lookup(msgs)
              /\ pc' = "ret"
              /\ UNCHANGED <<menuVars, db, files, connVars, envVars, passVars,
                             event, waited, exc, gh_entity_id, preview>>

---------------------------------------------------------------------------
(* The specification *)

Next ==
    \/ Menu_e \/ Menu_t \/ Menu_u \/ Menu_s \/ Return \/ UpstreamChanges
    \/ pe_Begin \/ pe_Connect \/ pe_CreateTables
    \/ pe_Message \/ pe_StreamRaises \/ pe_Done
    \/ ue_Begin \/ ue_Connect \/ ue_CheckTable \/ ue_Migrate
    \/ ue_Message \/ ue_StreamRaises \/ ue_Done
    \/ gh_Connect \/ gh_Render

Spec == Init /\ [][Next]_vars

---------------------------------------------------------------------------
(* One operation on a store an earlier session left: the first entity's     *)
(* history is of any of the six shapes, and its store is what a backfill of *)
(* an earlier, shorter history wrote, by this version of the program or by  *)
(* one that knew none of the columns of MigrationColumns, with the          *)
(* downloaded files still on disk or lost.                                  *)

RecordHistories == { History(top, shape) : top \in 1..MaxRecords, shape \in RecordShapes }

\* the shapes the messages may have had before: a reply's snippet, a button's
\* label and a reaction's count may be newer
EarlierShapes(shape) ==
    IF shape = 4 THEN {3, 4} ELSE IF shape = 8 THEN {7, 8} ELSE {shape}

RECURSIVE Backfilled(_, _, _, _)
\* the store after process_entity has processed the history h without fault
Backfilled(store, h, e, dl) ==
    IF h = <<>> THEN store
    ELSE LET m == Head(h)
             media == MediaFields(m, e, store, {}, dl, "none", TRUE)
         IN  Backfilled(CommitRecords(CommitMessage(Uncommitted(store, m, e), m, e,
                                                    media, "none"),
                                      m, e, FALSE),
                        Tail(h), e, dl)

\* the same rows in a messages table without the columns of MigrationColumns
Legacy(store) ==
    [store EXCEPT !.columns = {},
                  !.messages = { [r EXCEPT !.user_id = None] : r \in @ }]

\* the files the rows of a store name
Recorded(store) == { r.media_file[1] : r \in { q \in store.messages : q.media_file # None } }

\* the stores of entity e whose history is now h
EarlierStores(e, h) ==
    LET shape == CHOOSE sh \in RecordShapes : h = History(Len(h), sh)
        current == { Backfilled(CreateTables(Connected(NoStore)), History(top, sh), e, dl) :
                       top \in 0..Len(h), sh \in EarlierShapes(shape), dl \in BOOLEAN }
    IN  {NoStore} \cup current \cup { Legacy(st) : st \in current }

InitRecords ==
    /\ pc = "menu"
    /\ op = NULL /\ cur = 1 /\ ops = MaxOps - 1
    /\ limit = None /\ download = FALSE
    /\ \E h \in RecordHistories : \E store \in EarlierStores(1, h) :
         /\ upstream = [e \in EntityIds |-> IF e = 1 THEN h
                                            ELSE IF e = 2 THEN History(SmallMaxId, 1)
                                            ELSE <<>>]
         /\ db = [e \in EntityIds |-> IF e = 1 THEN store ELSE NoStore]
         /\ files \in {Recorded(store), {}}
    /\ open = {}
    /\ attempt = 0 /\ sleeps = <<>>
    /\ changes = MaxChanges
    /\ pos = 0 /\ lastMsgId = 0 /\ processed = <<>>
    /\ event = NULL /\ faults = 0 /\ waited = 0 /\ exc = NULL
    /\ renders = 0 /\ gh_entity_id = None /\ grouped_messages = <<>>
    /\ message_lookup = NoLookup /\ preview = NoPreview
    /\ Cataloged(SessionDialogs)
    /\ last = NoPass

NextRecords ==
    \/ Menu_e \/ Menu_t \/ Menu_u \/ Menu_s \/ Return
    \/ pe_Begin \/ pe_Connect \/ pe_CreateTables
    \/ pe_Message \/ pe_StreamRaises \/ pe_Done
    \/ ue_Begin \/ ue_Connect \/ ue_CheckTable \/ ue_Migrate
    \/ ue_Message \/ ue_StreamRaises \/ ue_Done
    \/ gh_Connect \/ gh_Render

SpecRecords == InitRecords /\ [][NextRecords]_vars

---------------------------------------------------------------------------
(* One operation on an entity whose single message has any sender reference *)
(* made of MaxParts parts; the store is absent, or it is an earlier         *)
(* version's and holds the message without user_id.                         *)

\* the parts of a reference: an id under each of the three keys, a key
\* without id, a digit, other text
ReferenceParts ==
    { <<"user_id=", "1">>, <<"channel_id=", "2">>, <<"chat_id=", "3">>,
      <<"user_id=">>, <<"4">>, <<"x">> }

RECURSIVE References(_)
\* the reference strings of at most n parts
References(n) ==
    IF n = 0 THEN { <<>> }
    ELSE References(n - 1)
           \cup { r \o p : r \in References(n - 1), p \in ReferenceParts }

\* the history of one text message with sender reference ref
ReferenceHistory(ref) == << [RawMessage(1, 1) EXCEPT !.from_id = ref] >>

InitUserId ==
    /\ pc = "menu"
    /\ op = NULL /\ cur = 1 /\ ops = MaxOps - 1
    /\ limit = None /\ download = FALSE
    /\ \E ref \in References(MaxParts) :
         /\ upstream = [e \in EntityIds |-> IF e = 1 THEN ReferenceHistory(ref) ELSE <<>>]
         /\ \E store \in { NoStore,
                            Legacy(Backfilled(CreateTables(Connected(NoStore)),
                                              ReferenceHistory(ref), 1, FALSE)) } :
              db = [e \in EntityIds |-> IF e = 1 THEN store ELSE NoStore]
    /\ files = {} /\ open = {}
    /\ attempt = 0 /\ sleeps = <<>>
    /\ changes = MaxChanges
    /\ pos = 0 /\ lastMsgId = 0 /\ processed = <<>>
    /\ event = NULL /\ faults = 0 /\ waited = 0 /\ exc = NULL
    /\ renders = 0 /\ gh_entity_id = None /\ grouped_messages = <<>>
    /\ message_lookup = NoLookup /\ preview = NoPreview
    /\ Cataloged(SessionDialogs)
    /\ last = NoPass

NextUserId ==
    \/ Menu_e \/ Menu_u \/ Menu_s \/ Return
    \/ pe_Begin \/ pe_Connect \/ pe_CreateTables
    \/ pe_Message \/ pe_StreamRaises \/ pe_Done
    \/ ue_Begin \/ ue_Connect \/ ue_CheckTable \/ ue_Migrate
    \/ ue_StreamRaises \/ ue_Done
    \/ gh_Connect \/ gh_Render

SpecUserId == InitUserId /\ [][NextUserId]_vars

---------------------------------------------------------------------------
(* One update of an entity whose stream is not ordered by id: the service   *)
(* delivers text messages with ids in any order, ids reused included, and   *)
(* the store is what a backfill of the history 1..M left.                   *)

\* the streams of n messages with ids in 1..MaxReorder
ReorderedOf(n) ==
    { [k \in 1..n |-> RawMessage(ids[k], 1)] : ids \in [1..n -> 1..MaxReorder] }

ReorderedStreams == UNION { ReorderedOf(n) : n \in 1..MaxReorder }

InitReorder ==
    /\ pc = "menu"
    /\ op = NULL /\ cur = 1 /\ ops = MaxOps - 1
    /\ limit = None /\ download = FALSE
    /\ \E s \in ReorderedStreams, top \in 0..MaxReorder :
         /\ upstream = [e \in EntityIds |-> IF e = 1 THEN s
                                            ELSE IF e = 2 THEN History(SmallMaxId, 1)
                                            ELSE <<>>]
         /\ db = [e \in EntityIds |->
                    IF e = 1
                    THEN Backfilled(CreateTables(Connected(NoStore)), History(top, 1), 1, FALSE)
                    ELSE NoStore]
    /\ files = {} /\ open = {}
    /\ attempt = 0 /\ sleeps = <<>>
    /\ changes = MaxChanges
    /\ pos = 0 /\ lastMsgId = 0 /\ processed = <<>>
    /\ event = NULL /\ faults = 0 /\ waited = 0 /\ exc = NULL
    /\ renders = 0 /\ gh_entity_id = None /\ grouped_messages = <<>>
    /\ message_lookup = NoLookup /\ preview = NoPreview
    /\ Cataloged(SessionDialogs)
    /\ last = NoPass

NextReorder ==
    \/ Menu_u \/ Menu_s \/ Return
    \/ pe_Begin \/ pe_Connect \/ pe_CreateTables
    \/ pe_Message \/ pe_StreamRaises \/ pe_Done
    \/ ue_Begin \/ ue_Connect \/ ue_CheckTable \/ ue_Migrate
    \/ ue_Message \/ ue_StreamRaises \/ ue_Done
    \/ gh_Connect \/ gh_Render

SpecReorder == InitReorder /\ [][NextReorder]_vars

---------------------------------------------------------------------------
(* get_reply_preview alone: the template calls the closure while it is      *)
(* rendered, with message_lookup built from the fetched rows                *)

\* def get_reply_preview(msg_id, max_length=30)
max_length == 30

\* faulty variant: a text of exactly max_length characters is cut as well
cut_from_max_length(text) ==
    IF Len(text) >= max_length THEN SubSeq(text, 1, max_length) \o "..." ELSE text

\* lines 1034-1035
truncate(text) ==
    IF Len(text) > max_length THEN SubSeq(text, 1, max_length) \o "..." ELSE text

\* Python's truth value of a column: None and the empty string are false
Truthy(v) == v # NULL /\ v # ""

\* lines 1012-1018: int(msg_id) raises TypeError on None, which is caught
get_message_by_id(lookup, msg_id) ==
    IF msg_id = None THEN None
    ELSE IF msg_id[1] \in DOMAIN lookup THEN Some(lookup[msg_id[1]])
    ELSE None

\* lines 1020-1037
get_reply_preview(lookup, msg_id) ==
    LET found == get_message_by_id(lookup, msg_id)
    IN  IF found = None THEN "Message not found"
        ELSE LET msg == found[1]
                 sender == IF Truthy(msg.sender_name) THEN msg.sender_name ELSE "Unknown"
                 text == IF Truthy(msg.text) THEN msg.text
                         ELSE IF Truthy(msg.media_type) THEN "Media message"
                         ELSE IF msg.is_service_message THEN "Service message"
                         ELSE "Empty message"
             IN  sender \o ": " \o truncate(text)

\* the template calls get_reply_preview(message[9]) for a displayed message
gh_ReplyPreview ==
    /\ pc = "gh_template"
    /\ \E msg_id \in {None} \cup { Some(i) : i \in 1..(MaxLookup + 1) } :
         preview' = [msg_id |-> msg_id, text |-> get_reply_preview(message_lookup, msg_id)]
    /\ UNCHANGED <<pc, menuVars, db, files, open, connVars, envVars, passVars, event,
                   waited, exc, renders, gh_entity_id, grouped_messages, message_lookup>>

RECURSIVE Chars(_)
\* a text of n characters
Chars(n) == IF n = 0 THEN "" ELSE "x" \o Chars(n - 1)

PreviewTexts ==
    {NULL, ""} \cup { Chars(n) : n \in (max_length - MaxSlack)..(max_length + MaxSlack) }

\* the rows the query may fetch for message i
FetchedRows(i) ==
    { [id |-> i, text |-> t, media_type |-> media, sender_name |-> sender,
       is_service_message |-> service] :
        t \in PreviewTexts, media \in {NULL, "MessageMediaPhoto"},
        sender \in {NULL, "Alice"}, service \in BOOLEAN }

\* the lookups over the ids of a set
Lookups(ids) ==
    { f \in [ids -> UNION { FetchedRows(i) : i \in ids }] : \A i \in ids : f[i].id = i }

InitPreview ==
    /\ pc = "gh_template"
    /\ op = "e" /\ cur = 1 /\ ops = 1
    /\ limit = None /\ download = FALSE
    /\ db = [e \in EntityIds |-> NoStore]
    /\ files = {} /\ open = {}
    /\ attempt = 0 /\ sleeps = <<>>
    /\ upstream = [e \in EntityIds |-> <<>>]
    /\ changes = 0
    /\ pos = 0 /\ lastMsgId = 0 /\ processed = <<>>
    /\ event = NULL /\ faults = 0 /\ waited = 0 /\ exc = NULL
    /\ renders = 0 /\ gh_entity_id = Some(1) /\ grouped_messages = <<>>
    /\ message_lookup \in UNION { Lookups(ids) : ids \in SUBSET (1..MaxLookup) }
    /\ preview = NoPreview
    /\ Cataloged(SessionDialogs)
    /\ last = NoPass

NextPreview == gh_ReplyPreview

SpecPreview == InitPreview /\ [][NextPreview]_vars

---------------------------------------------------------------------------
(* The catalog alone: main builds entities and the listing from the dialogs *)
(* of the account, then the operator selects an entry by number             *)

\* the classes of dialog.entity: User, Channel, Chat, ChannelForbidden, others
DialogTypes == {"User", "Channel", "Chat", "ChannelForbidden", "ChatForbidden"}

\* the dialog lists of n entities, the k-th with id k
DialogsOf(n) ==
    { [k \in 1..n |-> [id |-> k, type |-> ty[k],
                       broadcast |-> ty[k] = "Channel" /\ k \in b]] :
        ty \in [1..n -> DialogTypes], b \in SUBSET (1..n) }

\* lines 247-294: the buckets, then the listing
main_Catalog ==
    /\ pc = "main"
    /\ entities' = Catalog(dialogs, NoEntities)
    /\ listing' = Listing(entities', 1, 0)
    /\ pc' = "menu"
    /\ UNCHANGED <<menuVars, db, files, open, connVars, upstream, changes, passVars,
                   event, waited, exc, digestVars, dialogs, selected>>

\* lines 302-304 and 319-321: flat_entities[selected_index]; a negative index
\* counts from the end, an index out of range raises IndexError
main_Select ==
    /\ pc = "menu"
    /\ \E choice \in {"e", "u"}, selected_index \in (-1)..Len(Flat(entities)) :
         LET flat == Flat(entities)
             at == IF selected_index < 0 THEN Len(flat) + selected_index + 1
                   ELSE selected_index + 1
         IN  IF at \in 1..Len(flat)
             THEN /\ selected' = Some([index |-> selected_index, entry |-> flat[at]])
                  /\ op' = choice
                  /\ pc' = IF choice = "e" THEN "pe_begin" ELSE "ue_begin"
                  /\ UNCHANGED <<cur, ops, limit, download, db, files, open, connVars,
                                 upstream, changes, passVars, event, waited, exc,
                                 digestVars, dialogs, entities, listing>>
             ELSE Crash("IndexError", open, event)

InitCatalog ==
    /\ pc = "main"
    /\ op = NULL /\ cur = 1 /\ ops = 0
    /\ limit = None /\ download = FALSE
    /\ db = [e \in EntityIds |-> NoStore]
    /\ files = {} /\ open = {}
    /\ attempt = 0 /\ sleeps = <<>>
    /\ upstream = [e \in EntityIds |-> <<>>]
    /\ changes = 0
    /\ pos = 0 /\ lastMsgId = 0 /\ processed = <<>>
    /\ event = NULL /\ faults = 0 /\ waited = 0 /\ exc = NULL
    /\ renders = 0 /\ gh_entity_id = None /\ grouped_messages = <<>>
    /\ message_lookup = NoLookup /\ preview = NoPreview
    /\ dialogs \in UNION { DialogsOf(n) : n \in 0..MaxDialogs }
    /\ entities = NoEntities /\ listing = <<>> /\ selected = None
    /\ last = NoPass

NextCatalog == main_Catalog \/ main_Select

SpecCatalog == InitCatalog /\ [][NextCatalog]_vars

---------------------------------------------------------------------------
(* generate_html alone: a call generate_html(db_name, chat_name, entity_id) *)
(* or generate_html(db_name, chat_name) on a store of dated messages        *)

\* a current store holding the messages 1..n of entity e, message i dated date[i]
DatedStore(e, n, date) ==
    [CreateTables(Connected(NoStore)) EXCEPT
       !.messages =
          { [MessageRow(RawMessage(i, 1), e,
                        [file |-> None, hash |-> None, fetched |-> FALSE], "none")
               EXCEPT !.date = date[i]] : i \in 1..n }]

DatedStores(e) ==
    UNION { { DatedStore(e, n, date) : date \in [1..n -> 1..MaxDate] } : n \in 0..MaxRows }

InitDigest ==
    /\ pc = "gh_connect"
    /\ op = "e" /\ cur = 1 /\ ops = 1
    /\ limit = None /\ download = FALSE
    /\ \E store \in DatedStores(1) :
         db = [e \in EntityIds |-> IF e = 1 THEN store ELSE NoStore]
    /\ files = {} /\ open = {}
    /\ attempt = 0 /\ sleeps = <<>>
    /\ upstream = [e \in EntityIds |-> <<>>]
    /\ changes = 0
    /\ pos = 0 /\ lastMsgId = 0 /\ processed = <<>>
    /\ event = NULL /\ faults = 0 /\ waited = 0 /\ exc = NULL
    /\ renders = 0
    /\ gh_entity_id \in {None, Some(1)}
    /\ grouped_messages = <<>>
    /\ message_lookup = NoLookup /\ preview = NoPreview
    /\ Cataloged(SessionDialogs)
    /\ last = NoPass

NextDigest == gh_Connect \/ gh_Render

SpecDigest == InitDigest /\ [][NextDigest]_vars

---------------------------------------------------------------------------
(* The session under the program's scheduling: a pass that can take a step  *)
(* takes it (an awaited call returns or raises, asyncio.sleep ends); the    *)
(* menu waits for the operator as long as the operator likes.               *)

PassStep ==
    \/ pe_Begin \/ pe_Connect \/ pe_CreateTables
    \/ pe_Message \/ pe_StreamRaises \/ pe_Done
    \/ ue_Begin \/ ue_Connect \/ ue_CheckTable \/ ue_Migrate
    \/ ue_Message \/ ue_StreamRaises \/ ue_Done

SpecLive == Init /\ [][Next]_vars /\ WF_vars(PassStep)

---------------------------------------------------------------------------
(* Properties *)

Range(s) == { s[k] : k \in 1..Len(s) }

\* the pass in progress repeats the last pass: the same function, entity and
\* limit, that pass ended without exception and the history has not changed
Repeats(fn) ==
    /\ last.fn = fn /\ last.ok /\ last.fresh
    /\ last.e = entity.id /\ last.limit = limit

KeysUnique ==
    \A e \in EntityIds : \A r, q \in db[e].messages : SameKey(r, q) => r = q

RECURSIVE UntilCursor(_, _)
\* the ids of s, in order, up to the first one at or below cursor c
UntilCursor(s, c) ==
    IF s = <<>> \/ s[1].id <= c THEN <<>>
    ELSE <<s[1].id>> \o UntilCursor(Tail(s), c)

HighestId(rows) ==
    IF rows = {} THEN 0 ELSE CHOOSE m \in Ids(rows) : \A i \in Ids(rows) : i <= m

\* generate_html is running or has returned: the loop of the pass is over
LoopOver == pc \in {"gh_connect", "gh_query", "ret"}

\* the ids the pass whose loop is over had to commit if nothing interrupted it
ToCommit ==
    IF last.fn = "ue" THEN UntilCursor(stream, lastMsgId)
    ELSE [k \in 1..Len(Delivered(stream, limit)) |-> stream[k].id]

(* C1: a backfill that repeats a completed backfill over the same history   *)
(* with the same limit leaves the set of message rows as it was: no row is   *)
(* added, removed or changed, and no (id, entity_id) is ever stored twice.   *)
C1_BackfillIdempotent ==
    /\ []KeysUnique
    /\ [][(pc = "pe_iter" /\ Repeats("pe"))
            => db'[entity.id].messages = db[entity.id].messages]_vars

\* a second backfill has gone through the whole history again
C1_Witness ==
    /\ pc = "pe_iter" /\ Repeats("pe")
    /\ pos = Len(stream) /\ pos >= 2
    /\ Ids(db[entity.id].messages) = SeqIds(stream)

(* C2: update_entity's cursor is the highest stored id; the messages it      *)
(* processes are those of the stream, newest first, before the first one at  *)
(* or below the cursor; when its loop ends normally, the rows above the      *)
(* cursor are exactly those messages.                                        *)
C2_UpdateResumes ==
    /\ (pc = "ue_iter" /\ pos = 0)
         => lastMsgId = HighestId(db[entity.id].messages)
    /\ pc = "ue_iter"
         => /\ pos <= Len(UntilCursor(stream, lastMsgId))
            /\ processed = SubSeq(UntilCursor(stream, lastMsgId), 1, pos)
    /\ (LoopOver /\ last.fn = "ue" /\ last.ok)
         => /\ processed = UntilCursor(stream, lastMsgId)
            /\ { i \in Ids(db[entity.id].messages) : i > lastMsgId } = Range(processed)

\* store with highest id 2, history 4, 3, 2, 1: the update committed 4 and 3
C2_Witness ==
    /\ pc = "ret" /\ last.fn = "ue" /\ last.ok
    /\ lastMsgId = 2 /\ Len(stream) = 4
    /\ processed = <<4, 3>>
    /\ Ids(db[entity.id].messages) = {1, 2, 3, 4}

(* C3: a committed message row is never removed or changed and no second    *)
(* row with its key appears, whatever the stream delivers later; the only   *)
(* exception is the migration step of update_entity, which may set user_id. *)
C3_WriteOnce ==
    [][\A e \in EntityIds : \A r \in db[e].messages :
         LET same == { q \in db'[e].messages : SameKey(q, r) }
         IN  \/ same = {r}
             \/ /\ pc = "ue_migrate"
                /\ Cardinality(same) = 1
                /\ \A q \in same : [q EXCEPT !.user_id = r.user_id] = r]_vars

\* a backfill has processed a message whose stored row has another text
C3_Witness ==
    /\ pc = "pe_iter" /\ pos >= 1
    /\ \E r \in db[entity.id].messages :
         r.id = stream[1].id /\ r.text # stream[1].text

(* C4: after a rate-limit signal the pass has waited the signalled time and *)
(* every message it had to commit is in the store when its loop is over.    *)
C4_RateLimitResumes ==
    (LoopOver /\ event = "FloodWaitError")
        => /\ waited = FloodSeconds
           /\ Range(ToCommit) \subseteq Ids(db[entity.id].messages)

(* C5: a failure while one message is processed does not end the program,   *)
(* and when the loop is over every message after the failed one is stored.  *)
C5_MessageFailureIsolated ==
    event = "MessageError"
        => /\ exc # "MessageError"
           /\ LoopOver
                => \A k \in (pos + 2)..Len(ToCommit) :
                       ToCommit[k] \in Ids(db[entity.id].messages)

EntityErrors == {"not accessible", "ChannelPrivateError", "LookupError", "DownloadError"}

(* C7: no error of category (c), (d) or (e) ends the program: the step on   *)
(* which it occurs stays in the pass or goes on to the digest or returns,   *)
(* and a process-all run whose operation returned after such an error goes  *)
(* on with the next entity.                                                 *)
C7_EntityErrorsDoNotAbort ==
    /\ [](exc \notin EntityErrors)
    /\ [][(event' \in EntityErrors /\ event' # event)
            => pc' \in {"pe_iter", "ue_iter", "gh_connect", "ret"}]_vars
    /\ [][(pc = "ret" /\ op = "t" /\ event \in EntityErrors
             /\ cur < Len(flat_entities))
            => (pc' = "pe_begin" /\ cur' = cur + 1)]_vars

\* process-all: a download failed in the first entity's pass, the message was
\* stored without media and the operation has returned
C7_Witness ==
    /\ pc = "ret" /\ op = "t" /\ cur = 1
    /\ event = "DownloadError"
    /\ \E r \in db[1].messages : r.media_type # NULL /\ r.media_file = None

(* C8: a process-all run is never ended by the exhaustion of the store-busy *)
(* retries.                                                                 *)
C8_LockExhaustionSparesTheRun ==
    op = "t" => exc # "database is locked"

(* C9: an acquisition makes at most 3 attempts, has slept 5*k after the     *)
(* k-th store-busy failure for k = 1, 2 and nothing else, and raises the    *)
(* store-busy failure only on the 3rd attempt.                              *)
C9_BoundedAcquisition ==
    /\ attempt < 3
    /\ Len(sleeps) = attempt
    /\ \A k \in 1..Len(sleeps) : sleeps[k] = 5 * k
    /\ exc = "database is locked" => attempt = 2

\* the third attempt met a busy store: raised after sleeps of 5 and 10
C9_Witness ==
    /\ pc = "crashed" /\ exc = "database is locked"
    /\ attempt = 2 /\ sleeps = <<5, 10>>

(* C10: whenever process_entity, update_entity and generate_html have all   *)
(* returned or raised, no connection one of them opened is still open.      *)
C10_HandleReleased ==
    pc \in {"crashed", "ret", "menu", "exited"} => open = {}

(* C11: when the message loop of a backfill or an update runs, the messages *)
(* table of the entity's store has every column of MigrationColumns.        *)
C11_MigratedBeforeWrite ==
    pc \in {"pe_iter", "ue_iter"} => MigrationColumns \subseteq db[entity.id].columns

(* C14: a media file on disk is the recorded attachment of its message: the *)
(* message's row names that file as its media path and carries its hash     *)
(* (so that media_exists finds it and it is not downloaded again).          *)
C14_DownloadRecorded ==
    \A e \in EntityIds : \A r \in db[e].messages :
        MediaPath(e, r.id) \in files
            => /\ r.media_file = Some(MediaPath(e, r.id))
               /\ r.media_hash = get_file_hash(MediaPath(e, r.id), files)

(* C16: no step of any operation removes a message key (id, entity_id) from *)
(* a store, also when the message is no longer in the service's history.    *)
C16_AppendOnly ==
    [][\A e \in EntityIds : Ids(db[e].messages) \subseteq Ids(db'[e].messages)]_vars

\* the newest stored message was deleted upstream, and a later backfill has
\* gone through the whole remaining history and rendered the digest
C16_Witness ==
    /\ pc = "ret" /\ entity.id = 1 /\ changes = 1
    /\ last.fn = "pe" /\ last.ok /\ last.fresh
    /\ stream # <<>> /\ pos = Len(stream)
    /\ HighestId(db[1].messages) > stream[1].id

(* C17: in a pass the processed messages are those of the stream in its     *)
(* order; the step that takes message k commits message k and no other      *)
(* message before the next one is fetched; in a process-all run the next    *)
(* entity is started only when the previous operation has returned, with    *)
(* its digest written and no connection open.                               *)
C17_CommitOrder ==
    /\ [](pc \in {"pe_iter", "ue_iter"} => processed = [k \in 1..pos |-> stream[k].id])
    /\ [][pos' = pos + 1
            => /\ stream[pos + 1].id \in Ids(db'[entity.id].messages)
               /\ Ids(db'[entity.id].messages) \ Ids(db[entity.id].messages)
                    \subseteq {stream[pos + 1].id}]_vars
    /\ [][(op = "t" /\ cur' = cur + 1)
            => (pc = "ret" /\ open = {} /\ (renders = 1 \/ event = "not accessible"))]_vars

\* process-all: the second entity's message is committed after the two of the first
C17_Witness ==
    /\ pc = "pe_iter" /\ op = "t" /\ cur = 2 /\ pos = 1
    /\ Ids(db[1].messages) = {1, 2}
    /\ Ids(db[2].messages) = {1}

(* C18: the step on which a download fails stays in the message loop and    *)
(* leaves the message's row in the store; a row written by that step has a  *)
(* null media path and a null media hash.                                   *)
C18_DownloadFailureKeepsMessage ==
    [][(event' = "DownloadError" /\ faults' = faults + 1)
         => /\ pc' = pc /\ pos' = pos + 1
            /\ \E r \in db'[entity.id].messages :
                 /\ r.id = stream[pos + 1].id
                 /\ r \notin db[entity.id].messages
                      => (r.media_type = stream[pos + 1].media
                          /\ r.media_file = None /\ r.media_hash = None)]_vars

\* the download of the newest message failed, the next message was stored
\* with its file
C18_Witness ==
    /\ pc \in {"pe_iter", "ue_iter"} /\ download /\ pos = 2
    /\ event = "DownloadError"
    /\ \E r, q \in db[entity.id].messages :
         /\ r.id = stream[1].id /\ r.media_type # NULL /\ r.media_file = None
         /\ q.id = stream[2].id /\ q.media_file # None

(* C12: the step of an update pass that opens a store whose messages table  *)
(* lacks user_id adds the column, sets user_id of every existing row to     *)
(* extract_user_id of the row's stored from_id, changes no other field,     *)
(* deletes no row and leaves the replies and buttons alone; and no step of  *)
(* any pass takes a column or a table away.                                 *)
C12_MigrationBackfillsUserId ==
    [][ /\ \A e \in EntityIds :
             /\ db[e].columns \subseteq db'[e].columns
             /\ db[e].has_messages => db'[e].has_messages
        /\ (pc = "ue_migrate" /\ pc' = "ue_iter" /\ "user_id" \notin db[entity.id].columns)
             => /\ "user_id" \in db'[entity.id].columns
                /\ db'[entity.id].messages =
                     { [r EXCEPT !.user_id = extract_user_id(r.from_id)] :
                         r \in db[entity.id].messages }
                /\ Cardinality(db'[entity.id].messages) = Cardinality(db[entity.id].messages)
                /\ db'[entity.id].replies = db[entity.id].replies
                /\ db'[entity.id].buttons = db[entity.id].buttons ]_vars

\* the update pass has migrated a store that lacked user_id: its rows now
\* carry the ids taken from their sender references
C12_Witness ==
    /\ pc = "ue_iter" /\ pos = 0
    /\ db[entity.id].columns = MigrationColumns
    /\ \E r \in db[entity.id].messages :
         r.user_id # None /\ r.user_id = extract_user_id(r.from_id)

MediaTypes == {"MessageMediaPhoto", "MessageMediaDocument"}

(* C13: media_exists says "do not fetch" exactly when the store holds a row *)
(* with that message id, entity id and media type whose media path is not   *)
(* null and names a file on disk; it says "fetch" when there is no row of   *)
(* that key and type, when the path is null and when the file is missing.   *)
C13_MediaDedupDecision ==
    \A e \in EntityIds : \A id \in 1..MaxRecords : \A type \in MediaTypes :
        LET rows == { r \in db[e].messages :
                        r.id = id /\ r.entity_id = e /\ r.media_type = type }
            kept == { r \in rows : r.media_file # None }
        IN  /\ media_exists(db[e], e, id, type, files)
                <=> (kept # {} /\ \A r \in kept : r.media_file[1] \in files)
            /\ rows = {} => ~media_exists(db[e], e, id, type, files)
            /\ kept = {} => ~media_exists(db[e], e, id, type, files)
            /\ (\A r \in kept : r.media_file[1] \notin files)
                   => ~media_exists(db[e], e, id, type, files)

\* a backfill with downloads is about to decide on a photo whose row names a
\* file that is lost, while the row of another photo names a file on disk
C13_Witness ==
    /\ pc = "pe_iter" /\ download /\ pos < Len(stream)
    /\ stream[pos + 1].media = "MessageMediaPhoto"
    /\ \E r \in db[entity.id].messages :
         /\ r.id = stream[pos + 1].id /\ r.media_type = "MessageMediaPhoto"
         /\ r.media_file # None /\ r.media_file[1] \notin files
    /\ \E r \in db[entity.id].messages :
         /\ r.media_file # None /\ r.media_file[1] \in files
         /\ media_exists(db[entity.id], entity.id, r.id, r.media_type, files)
         /\ ~media_exists(db[entity.id], entity.id, r.id, "MessageMediaDocument", files)

(* C15: once a pass has processed a replying message, the stored            *)
(* ReplyRecord of that message carries the snippet the stream delivered,    *)
(* also when a ReplyRecord of the message was stored before.                *)
C15_ReplyUpserted ==
    \A k \in 1..pos :
        LET m == stream[k]
        IN  m.extras.reply_to # None
              => \E r \in db[entity.id].replies :
                    /\ r.message_id = m.id /\ r.entity_id = entity.id
                    /\ r.quote_text = m.extras.quote

(* C19: once a pass has processed a message with n anchors, the store holds *)
(* for it one ButtonRecord per anchor at row 0 and columns 0..n-1, without  *)
(* payload and with the anchor's href, besides its keyboard's buttons at    *)
(* their coordinates; without keyboard these are n ButtonRecords.           *)
C19_AnchorsHarvested ==
    \A k \in 1..pos :
        LET m == stream[k]
            n == Len(m.extras.anchors)
            bs == { b \in db[entity.id].buttons :
                      b.message_id = m.id /\ b.entity_id = entity.id }
        IN  /\ \A j \in 1..n :
                 \E b \in bs : /\ b.row = 0 /\ b.column = j - 1
                               /\ b.data = NULL /\ b.url = m.extras.anchors[j].href
            /\ \A i \in 1..Len(m.extras.buttons) : \A j \in 1..Len(m.extras.buttons[i]) :
                 \E b \in bs : /\ b.row = i - 1 /\ b.column = j - 1
                               /\ b.text = m.extras.buttons[i][j].text
                               /\ b.data = m.extras.buttons[i][j].data
            /\ m.extras.buttons = <<>> => Cardinality(bs) = n

(* C20: a written digest has one group per calendar day of the selected     *)
(* records, every record is in exactly one group, under its own day, and    *)
(* the records of a group are in descending order of their dates.           *)
C20_DigestGroupsByDay ==
    (pc = "ret" /\ renders = 1)
        => LET rows == Selected(db[entity.id], gh_entity_id)
               g == grouped_messages
           IN  /\ Len(g) = Cardinality({ DayOf(r.date) : r \in rows })
               /\ \A r \in rows :
                    Cardinality({ ki \in (1..Len(g)) \X (1..Cardinality(rows)) :
                                    /\ ki[2] <= Len(g[ki[1]].msgs)
                                    /\ g[ki[1]].msgs[ki[2]] = Entry(r) }) = 1
               /\ \A k \in 1..Len(g) : \A i, j \in 1..Len(g[k].msgs) :
                    /\ DayOf(g[k].msgs[i].date) = g[k].day
                    /\ i < j => g[k].msgs[i].date >= g[k].msgs[j].date

\* the digits that follow the leftmost occurrence of key that has a digit
\* after it, None when there is no such occurrence
IdAfter(key, s) ==
    LET hits == { i \in 1..(Len(s) - 1) : s[i] = key /\ s[i + 1] \in DigitTokens }
    IN  IF hits = {} THEN None
        ELSE LET i == CHOOSE h \in hits : \A g \in hits : h <= g
                 j == CHOOSE n \in (i + 1)..Len(s) :
                        /\ \A k \in (i + 1)..n : s[k] \in DigitTokens
                        /\ n = Len(s) \/ s[n + 1] \notin DigitTokens
             IN  SubSeq(s, i + 1, j)

(* C22: the user_id computed from a sender reference is the id under the    *)
(* user-id key if there is one, else the id under the channel-id key, else  *)
(* the id under the chat-id key, else the reference itself if it is made of *)
(* digits only, else none; an empty reference gives none.                   *)
C22_ExtractUserId ==
    \A e \in EntityIds : \A r \in db[e].messages :
        "user_id" \in db[e].columns
            => r.user_id =
                 IF IdAfter("user_id=", r.from_id) # None THEN IdAfter("user_id=", r.from_id)
                 ELSE IF IdAfter("channel_id=", r.from_id) # None
                      THEN IdAfter("channel_id=", r.from_id)
                 ELSE IF IdAfter("chat_id=", r.from_id) # None
                      THEN IdAfter("chat_id=", r.from_id)
                 ELSE IF r.from_id # <<>> /\ \A k \in 1..Len(r.from_id) :
                                                r.from_id[k] \in DigitTokens
                      THEN r.from_id
                 ELSE None

\* a stored message whose reference names a channel id before a user id
\* carries the user id
C22_Witness ==
    \E r \in db[1].messages :
        /\ "user_id" \in db[1].columns
        /\ r.from_id = <<"channel_id=", "2", "user_id=", "1">>
        /\ r.user_id = <<"1">>

(* C24: the step on which a backfill leaves its message loop without a      *)
(* stream-level error goes on to the digest, and the pass has then          *)
(* processed the min(L, N) newest messages of the stream, all N without     *)
(* limit, and no other.                                                     *)
C24_LimitedBackfillCompletes ==
    [][(pc = "pe_iter" /\ pc' # "pe_iter" /\ event' \notin StreamErrors)
         => LET n == IF limit = None \/ Len(stream) < limit[1]
                     THEN Len(stream) ELSE limit[1]
            IN  /\ pc' = "gh_connect"
                /\ processed = [k \in 1..n |-> stream[k].id]]_vars

(* C25: a committed ButtonRecord or ReactionRecord stays as it is: no step  *)
(* of a backfill or an update removes it, changes its label, payload, url   *)
(* or count, or stores a second record under its key, whatever the stream   *)
(* delivers for that key.                                                   *)
C25_ButtonsAndReactionsWriteOnce ==
    [][\A e \in EntityIds :
         /\ \A b \in db[e].buttons :
              { c \in db'[e].buttons : SameButton(c, b) } = {b}
         /\ \A r \in db[e].reactions :
              { q \in db'[e].reactions : SameReaction(q, r) } = {r}]_vars

\* a backfill has processed a message whose stored button has another label
\* and whose stored reaction has another count than the stream delivers
C25_Witness ==
    /\ pc = "pe_iter" /\ pos >= 1
    /\ stream[1].extras.buttons # <<>> /\ stream[1].extras.reactions # <<>>
    /\ \E b \in db[entity.id].buttons :
         /\ b.message_id = stream[1].id /\ b.row = 0 /\ b.column = 0
         /\ b.text # stream[1].extras.buttons[1][1].text
    /\ \E r \in db[entity.id].reactions :
         /\ r.message_id = stream[1].id
         /\ r.emoji = stream[1].extras.reactions[1].emoji
         /\ r.count # stream[1].extras.reactions[1].count

\* the store holds what the loop body writes for message m of entity e
Written(store, m, e) ==
    /\ \E r \in store.messages : r.id = m.id /\ r.entity_id = e
    /\ m.extras.reply_to # None
         => \E r \in store.replies : r.message_id = m.id /\ r.entity_id = e
    /\ \A k \in 1..Len(m.extras.reactions) :
         \E r \in store.reactions :
            /\ r.message_id = m.id /\ r.entity_id = e
            /\ r.emoji = m.extras.reactions[k].emoji
    /\ \A i \in 1..Len(m.extras.buttons) : \A j \in 1..Len(m.extras.buttons[i]) :
         \E b \in store.buttons :
            /\ b.message_id = m.id /\ b.entity_id = e
            /\ b.row = i - 1 /\ b.column = j - 1
    /\ m.extras.anchors # <<>>
         => \E b \in store.buttons : b.message_id = m.id /\ b.entity_id = e /\ b.row = 0

(* C28: while a pass runs and after it was aborted, the store holds the     *)
(* rows of every message the pass has processed; the step that aborts the   *)
(* pass leaves every store as the last commit left it, so that no row       *)
(* written for the message in progress is kept.                             *)
C28_OneTransactionPerMessage ==
    /\ [](\A k \in 1..pos : Written(db[entity.id], stream[k], entity.id))
    /\ [][(/\ pc \in {"pe_iter", "ue_iter"}
           /\ \/ pc' = "crashed"
              \/ pc' = "gh_connect" /\ ~last'.ok)
            => db' = db]_vars

\* an update was aborted while it processed the second message of the
\* stream: the first message's reaction is stored, the second's is not
C28_Witness ==
    /\ pc = "gh_connect" /\ last.fn = "ue" /\ ~last.ok
    /\ event = "MessageError"
    /\ pos = 1 /\ Len(stream) = 2
    /\ stream[2].extras.reactions # <<>>
    /\ \E r \in db[entity.id].reactions : r.message_id = stream[1].id
    /\ ~\E r \in db[entity.id].reactions : r.message_id = stream[2].id

(* C30: an inaccessible entity has no store file at any time, and while a   *)
(* backfill or an update of it runs and when it has returned, no connection *)
(* is open, no digest was rendered and no exception was raised: the         *)
(* operation only begins and returns.                                       *)
C30_InaccessibleEntitySkipped ==
    /\ \A i \in 1..Len(flat_entities) :
         flat_entities[i].type = "ChannelForbidden" => db[flat_entities[i].id] = NoStore
    /\ (entity.type = "ChannelForbidden")
         => /\ pc \in {"pe_begin", "ue_begin", "ret"}
            /\ open = {} /\ renders = 0 /\ exc = NULL
            /\ pc = "ret" => event = "not accessible"

\* an update of the inaccessible entity has returned
C30_Witness ==
    /\ pc = "ret" /\ op = "u"
    /\ entity.type = "ChannelForbidden"
    /\ event = "not accessible"

(* C29: after the message loop of a pass, ended normally or by a caught     *)
(* failure, generate_html runs with the pass's own connection closed, finds *)
(* in the store the columns its query reads, and has rendered the digest    *)
(* exactly once when the operation returns.                                 *)
C29_DigestAfterEveryPass ==
    /\ renders <= 1
    /\ pc \in {"gh_connect", "gh_query"}
         => /\ "pe" \notin open /\ "ue" \notin open
            /\ renders = 0
    /\ (pc = "ret" /\ event # "not accessible") => renders = 1
    /\ pc = "gh_query" => ~QueryRaises(db[entity.id])

(* C27: an update of an entity without store file, or whose file has no     *)
(* messages table, goes on as a backfill without count limit, with no       *)
(* connection of the update left open; an update on a messages table with   *)
(* no row of the entity starts with cursor 0 and, when its loop ends        *)
(* normally, has committed every message of the stream.                     *)
C27_UpdateWithoutRows ==
    /\ [][(pc = "ue_begin" /\ ~db[entity.id].exists)
            => (pc' = "pe_begin" /\ limit' = None /\ open' = {})]_vars
    /\ [][(pc = "ue_check" /\ pc' # "crashed" /\ ~db[entity.id].has_messages)
            => (pc' = "pe_begin" /\ limit' = None /\ open' = {})]_vars
    /\ []((op = "u" /\ pc \in {"pe_begin", "pe_connect", "pe_create", "pe_iter"})
            => limit = None)
    /\ []((pc = "ue_iter" /\ pos = 0
             /\ { r \in db[entity.id].messages : r.entity_id = entity.id } = {})
            => lastMsgId = 0)
    /\ []((LoopOver /\ last.fn = "ue" /\ last.ok /\ lastMsgId = 0)
            => /\ processed = [k \in 1..Len(stream) |-> stream[k].id]
               /\ SeqIds(stream) \subseteq Ids(db[entity.id].messages))

\* an update met a messages table without rows and has committed the whole
\* history of two or more messages
C27_Witness ==
    /\ pc = "ret" /\ last.fn = "ue" /\ last.ok
    /\ lastMsgId = 0 /\ Len(stream) >= 2
    /\ Len(processed) = Len(stream)
    /\ Ids(db[entity.id].messages) = SeqIds(stream)

(* C26: when an update pass ends normally, the messages of the stream above *)
(* the cursor that are not in the store are those delivered after the first *)
(* message at or below the cursor (and not also before it): with ids that   *)
(* do not decrease there are such messages, and the pass has missed them.   *)
C26_ReorderedIdsAreMissed ==
    (LoopOver /\ last.fn = "ue" /\ last.ok)
        => LET before == UntilCursor(stream, lastMsgId)
               after == { stream[k].id : k \in (Len(before) + 1)..Len(stream) }
           IN  { i \in SeqIds(stream) : i > lastMsgId /\ i \notin Ids(db[entity.id].messages) }
                 = { i \in after : i > lastMsgId /\ i \notin Range(before) }

\* store with cursor 1, stream 1, 2: the update has ended at its first
\* message and message 2 is not in the store
C26_Witness ==
    /\ pc = "ret" /\ last.fn = "ue" /\ last.ok
    /\ lastMsgId = 1
    /\ Len(stream) = 2 /\ stream[1].id = 1 /\ stream[2].id = 2
    /\ 2 \notin Ids(db[entity.id].messages)

(* C21: the reply preview of an id not in the lookup is "Message not found"; *)
(* of a stored message it is "<sender>: <text>", the sender "Unknown" when   *)
(* missing, the text cut to its first 30 characters plus "..." when longer,  *)
(* and, when the message has no text, "Media message" if it has media, else  *)
(* "Service message" if it is a service message, else "Empty message".       *)
C21_ReplyPreview ==
    preview # NoPreview =>
        LET i == preview.msg_id
        IN  IF i = None \/ i[1] \notin DOMAIN message_lookup
            THEN preview.text = "Message not found"
            ELSE LET msg == message_lookup[i[1]]
                     sender == IF msg.sender_name \in {NULL, ""} THEN "Unknown"
                               ELSE msg.sender_name
                     text == IF msg.text \notin {NULL, ""} THEN msg.text
                             ELSE IF msg.media_type # NULL THEN "Media message"
                             ELSE IF msg.is_service_message THEN "Service message"
                             ELSE "Empty message"
                 IN  preview.text =
                        IF Len(text) <= 30 THEN sender \o ": " \o text
                        ELSE sender \o ": " \o SubSeq(text, 1, 30) \o "..."

\* a preview of a stored message of exactly 30 characters, shown whole
C21_Witness ==
    /\ preview.msg_id = Some(1)
    /\ 1 \in DOMAIN message_lookup
    /\ message_lookup[1].text # NULL /\ Len(message_lookup[1].text) = 30
    /\ message_lookup[1].sender_name = "Alice"
    /\ preview.text = "Alice: " \o message_lookup[1].text

\* the entries of the buckets that hold dialog d
Holding(d) ==
    { <<c, j>> \in { Buckets[k] : k \in 1..Len(Buckets) } \X (1..Len(dialogs)) :
        j <= Len(entities[c]) /\ entities[c][j].entity = d }

(* C23: once the catalog is built, every dialog is in exactly one bucket,   *)
(* the one of its class; the listing has one row per entry of every bucket, *)
(* numbered 0, 1, ... through the buckets in order; and the entry that a    *)
(* selection by number picks is the entry whose listing row carries that    *)
(* number.                                                                  *)
C23_CatalogAndSelection ==
    pc # "main" =>
        /\ \A k \in 1..Len(dialogs) :
             LET d == dialogs[k]
                 bucket == IF d.type = "User" THEN "Users"
                           ELSE IF d.type = "Channel" /\ d.broadcast THEN "Channels"
                           ELSE IF d.type = "Channel" THEN "Supergroups"
                           ELSE IF d.type = "Chat" THEN "Groups"
                           ELSE "Unknown"
             IN  Cardinality(Holding(d)) = 1 /\ \A h \in Holding(d) : h[1] = bucket
        /\ \A k \in 1..Len(listing) : listing[k].index = k - 1
        /\ \A c \in DOMAIN entities : \A j \in 1..Len(entities[c]) :
             \E k \in 1..Len(listing) :
                /\ listing[k].category = c
                /\ listing[k].id = entities[c][j].id
                /\ listing[k].name = entities[c][j].name
        /\ Len(listing) = Len(dialogs)
        /\ (selected # None /\ selected[1].index >= 0) =>
             \E k \in 1..Len(listing) :
                /\ listing[k].index = selected[1].index
                /\ listing[k].id = selected[1].entry.id
                /\ listing[k].name = selected[1].entry.name
                /\ \E j \in 1..Len(entities[listing[k].category]) :
                     entities[listing[k].category][j] = selected[1].entry

\* dialogs delivered as forbidden channel, supergroup, user: number 1 is
\* selected for an update and picks the supergroup
C23_Witness ==
    /\ Len(dialogs) = 3
    /\ dialogs[1].type = "ChannelForbidden"
    /\ dialogs[2].type = "Channel" /\ ~dialogs[2].broadcast
    /\ dialogs[3].type = "User"
    /\ op = "u" /\ selected # None
    /\ selected[1].index = 1 /\ selected[1].entry.id = 2
    /\ listing[2].id = 2 /\ listing[2].category = "Supergroups"

Keys(rows) == { <<r.message_id, r.entity_id>> : r \in rows }

(* C34: in every store, at every time, the key (message_id, entity_id) of   *)
(* every ButtonRecord, ReplyRecord and ReactionRecord is the key of a stored *)
(* MessageRecord.                                                           *)
C34_RecordsHaveTheirMessage ==
    \A e \in EntityIds :
        Keys(db[e].buttons) \cup Keys(db[e].replies) \cup Keys(db[e].reactions)
            \subseteq { <<r.id, r.entity_id>> : r \in db[e].messages }

\* an update has committed a new message with a keyboard and reactions
C34_Witness ==
    /\ pc = "ue_iter" /\ pos = 1 /\ lastMsgId < stream[1].id
    /\ stream[1].extras.buttons # <<>> /\ stream[1].extras.reactions # <<>>
    /\ <<stream[1].id, entity.id>> \in Keys(db[entity.id].buttons)
    /\ <<stream[1].id, entity.id>> \in Keys(db[entity.id].reactions)

\* the last pass over the entity now updated was a backfill without limit or
\* an update, its loop ended without exception, its operation has returned,
\* and the history has not changed since
Completed ==
    /\ last.e = entity.id /\ last.ok /\ last.fresh
    /\ last.fn = "ue" \/ (last.fn = "pe" /\ last.limit = None)

(* C35: an update that follows a completed backfill without limit or a      *)
(* completed update of the same entity, the history unchanged, processes no *)
(* message, and none of its steps changes a table of a store or a file.     *)
C35_UpdateIdempotent ==
    [][(op = "u" /\ pc \in {"ue_begin", "ue_connect", "ue_check", "ue_migrate", "ue_iter"}
          /\ Completed)
         => /\ db' = db /\ files' = files
            /\ pos' = 0 /\ processed' = <<>>
            /\ pc' \notin {"pe_begin", "pe_iter"}]_vars

\* an update after a completed backfill of two or more messages is at its
\* loop, the cursor on the newest message of the stream
C35_Witness ==
    /\ op = "u" /\ pc = "ue_iter" /\ pos = 0
    /\ Completed /\ last.fn = "pe"
    /\ Len(stream) >= 2 /\ lastMsgId = stream[1].id
    /\ Ids(db[entity.id].messages) = SeqIds(stream)

(* C32: when an update with cursor M was aborted after it had committed     *)
(* messages, and the next update of the same entity over the same history   *)
(* ends its loop normally, the store holds every message of the history     *)
(* with an id above M.                                                      *)
C32_UpdateResumesAfterAbort ==
    [][(/\ op = "u" /\ pc = "ue_iter"
        /\ last.fn = "ue" /\ ~last.ok /\ last.done > 0
        /\ last.e = entity.id /\ last.fresh
        /\ pc' = "gh_connect" /\ last'.ok)
         => \A k \in 1..Len(stream) :
               stream[k].id > last.cursor
                  => stream[k].id \in Ids(db'[entity.id].messages)]_vars

\* process_entity or update_entity is running, its loop not yet left
InPass ==
    pc \in {"pe_begin", "pe_connect", "pe_create", "pe_iter",
            "ue_begin", "ue_connect", "ue_check", "ue_migrate", "ue_iter"}

(* C31: a pass that has begun leaves its message loop: it goes on to the    *)
(* digest, returns, or ends the program with an exception.  Each step that  *)
(* stays in the loop consumes one more message of the stream, and a failed  *)
(* acquisition of the connection is retried fewer than max_retries times.   *)
C31_PassTerminates ==
    /\ InPass ~> (pc \in {"gh_connect", "ret", "crashed"})
    /\ [][(pc \in {"pe_iter", "ue_iter"} /\ pc' = pc)
            => (pos' = pos + 1 /\ pos' <= Len(stream))]_vars
    /\ [](attempt < max_retries)

\* the loop of a backfill was left on a rate-limit signal after one message
C31_Witness ==
    /\ pc = "gh_connect" /\ last.fn = "pe" /\ ~last.ok
    /\ event = "FloodWaitError" /\ pos = 1 /\ Len(stream) >= 2

=============================================================================
